---- MODULE Spec2Model ----
(***************************************************************************)
(* Model of ProfessionalWebCrawler (src/crawler.js): the URL frontier      *)
(* (visitedUrls / urlsToCrawl / failedUrls), URL normalisation, link       *)
(* extraction, the crawl loop with its await points, and time tracking.    *)
(*                                                                         *)
(* Strings are sequences of tokens.  A URL string such as                  *)
(*     https://WWW.ex/a//b/?id=1#f                                         *)
(* is  <<"https",":","/","/","WWW",".","ex","/","a","/","/","b","/",       *)
(*       "?","id","=","1","#","f">>                                        *)
(* so that parsing, re-serialising, the regular-expression replacements    *)
(* of normalizeUrl and the substring tests of shouldCrawlUrl operate on    *)
(* the text of the URL and not on a pre-digested record.                   *)
(***************************************************************************)
EXTENDS Integers, Sequences, FiniteSets, TLC

(***************************************************************************)
(* Bounds of the model.                                                    *)
(***************************************************************************)
\* number of startCrawling calls that pass validation
MaxStarts == 2
\* number of pages after the seed on the site of the time tracker
MaxChain == 52
\* the small page budget of the time estimate
TightBudget == 7
\* number of matches in a document handed to link extraction
MaxDocLen == 2
\* largest config.maxPages the caller sets (the smallest is -1)
MaxBudget == 2
\* page times are multiples of 1000 ms up to MaxPageSecs seconds
MaxPageSecs == 1

(***************************************************************************)
(* Text helpers.                                                           *)
(***************************************************************************)
Take(s, n) == SubSeq(s, 1, n)

Drop(s, n) == SubSeq(s, n + 1, Len(s))

\* index of the first element of s that is in S; Len(s) + 1 when there is none
FirstIndex(s, S) ==
    IF \E i \in 1..Len(s) : s[i] \in S
    THEN CHOOSE i \in 1..Len(s) : s[i] \in S /\ \A j \in 1..(i - 1) : s[j] \notin S
    ELSE Len(s) + 1

\* number of leading "/" tokens of s
LeadingSlashes(s) ==
    IF \E i \in 1..Len(s) : s[i] # "/"
    THEN (CHOOSE i \in 1..Len(s) : s[i] # "/" /\ \A j \in 1..(i - 1) : s[j] = "/") - 1
    ELSE Len(s)

\* String.prototype.toLowerCase on one token of the alphabet
LowerTok(t) ==
    CASE t = "HTTPS" -> "https"
      [] t = "WWW" -> "www"
      [] t = "EX" -> "ex"
      [] t = "Login" -> "login"
      [] t = "f.PDF" -> "f.pdf"
      [] t = "UTM_source" -> "utm_source"
      [] OTHER -> t

LowerSeq(s) == [i \in 1..Len(s) |-> LowerTok(s[i])]

(***************************************************************************)
(* new URL(string): the WHATWG parser on token strings.                    *)
(***************************************************************************)
SchemeTokens == {"http", "https", "HTTPS", "ftp", "mailto"}

\* schemes with an authority; others (mailto:) have an opaque path and no host
SpecialSchemes == {"http", "https", "ftp"}

ParseFailure ==
    [ok |-> FALSE, scheme |-> "", special |-> FALSE, host |-> <<>>, path |-> <<>>,
     hasQuery |-> FALSE, query |-> <<>>, hasFragment |-> FALSE, fragment |-> <<>>]

\* the text from the first "?" or "#" on
AfterPath(tail) == Drop(tail, FirstIndex(tail, {"?", "#"}) - 1)

\* the text from the first "#" on
FragmentPart(rest) == Drop(rest, FirstIndex(rest, {"#"}) - 1)

\* the path, query and fragment states; rest is the text after the path
ParsedUrl(scheme, special, host, rawPath, rest) ==
    [ok |-> TRUE, scheme |-> scheme, special |-> special, host |-> host,
     path |-> IF special /\ rawPath = <<>> THEN <<"/">> ELSE rawPath,
     hasQuery |-> rest # <<>> /\ rest[1] = "?",
     query |-> IF rest # <<>> /\ rest[1] = "?"
               THEN SubSeq(rest, 2, FirstIndex(rest, {"#"}) - 1) ELSE <<>>,
     hasFragment |-> FragmentPart(rest) # <<>>,
     fragment |-> IF FragmentPart(rest) # <<>> THEN Tail(FragmentPart(rest)) ELSE <<>>]

ParseTail(scheme, special, host, tail) ==
    ParsedUrl(scheme, special, host,
              Take(tail, FirstIndex(tail, {"?", "#"}) - 1), AfterPath(tail))

\* the authority state: the host ends at the first "/", "?" or "#"; a special
\* scheme needs a host
ParseAuthority(scheme, text) ==
    IF FirstIndex(text, {"/", "?", "#"}) = 1
    THEN ParseFailure
    ELSE ParseTail(scheme, TRUE,
                   LowerSeq(Take(text, FirstIndex(text, {"/", "?", "#"}) - 1)),
                   Drop(text, FirstIndex(text, {"/", "?", "#"}) - 1))

ParseURL(s) ==
    IF Len(s) < 2 \/ s[1] \notin SchemeTokens \/ s[2] # ":"
    THEN ParseFailure
    ELSE IF LowerTok(s[1]) \in SpecialSchemes
    THEN ParseAuthority(LowerTok(s[1]), Drop(s, 2 + LeadingSlashes(Drop(s, 2))))
    ELSE ParseTail(LowerTok(s[1]), FALSE, <<>>, Drop(s, 2))

\* URL.prototype.href: the serialiser
Href(u) ==
    <<u.scheme, ":">>
    \o (IF u.special THEN <<"/", "/">> \o u.host ELSE <<>>)
    \o u.path
    \o (IF u.hasQuery THEN <<"?">> \o u.query ELSE <<>>)
    \o (IF u.hasFragment THEN <<"#">> \o u.fragment ELSE <<>>)

(***************************************************************************)
(* normalizeUrl and its parts.                                             *)
(***************************************************************************)
\* hostname.replace(/^www\./, '')
StripWww(h) ==
    IF Len(h) >= 2 /\ h[1] = "www" /\ h[2] = "." THEN Drop(h, 2) ELSE h

\* pathname.replace(/\/+/g, '/')
RECURSIVE CollapseSlashes(_)
CollapseSlashes(p) ==
    IF Len(p) < 2 THEN p
    ELSE IF p[1] = "/" /\ p[2] = "/" THEN CollapseSlashes(Tail(p))
    ELSE <<p[1]>> \o CollapseSlashes(Tail(p))

\* .replace(/\/$/, '')
StripTrailingSlash(p) ==
    IF p # <<>> /\ p[Len(p)] = "/" THEN Take(p, Len(p) - 1) ELSE p

\* pathname.replace(/\/+/g, '/').replace(/\/$/, '') || '/'
NormalizePath(p) ==
    LET q == StripTrailingSlash(CollapseSlashes(p))
    IN IF q = <<>> THEN <<"/">> ELSE q

\* String.prototype.split on a separator token
RECURSIVE SplitOn(_, _)
SplitOn(s, sep) ==
    LET i == FirstIndex(s, {sep})
    IN IF i > Len(s) THEN <<s>> ELSE <<Take(s, i - 1)>> \o SplitOn(Drop(s, i), sep)

\* new URLSearchParams(search): the name/value pairs, empty pieces skipped
ParseParams(q) ==
    LET pieces == SelectSeq(SplitOn(q, "&"), LAMBDA c : c # <<>>)
    IN [i \in 1..Len(pieces) |->
          LET e == FirstIndex(pieces[i], {"="})
          IN [key |-> Take(pieces[i], e - 1), value |-> Drop(pieces[i], e)]]

\* URLSearchParams.prototype.toString
RECURSIVE SerializeParams(_)
SerializeParams(ps) ==
    IF ps = <<>> THEN <<>>
    ELSE ps[1].key \o <<"=">> \o ps[1].value
         \o (IF Len(ps) > 1 THEN <<"&">> \o SerializeParams(Tail(ps)) ELSE <<>>)

\* the tokens of the alphabet that /^(utm_|fbclid|gclid|msclkid|trk_|ref|source)/
\* matches
TrackingTokens ==
    {"utm_source", "utm_medium", "fbclid", "gclid", "msclkid", "trk_id",
     "ref", "referrer", "source"}

\* key.match(/^(utm_|fbclid|gclid|msclkid|trk_|ref|source)/i)
HasTrackingPrefix(key) == key # <<>> /\ LowerTok(key[1]) \in TrackingTokens

\* the loop over params that keeps the important ones
ImportantParams(q) ==
    SelectSeq(ParseParams(q), LAMBDA p : ~HasTrackingPrefix(p.key))

\* urlObj.search = importantParams.toString(); '' removes the query
WithSearch(u, search) == [u EXCEPT !.hasQuery = search # <<>>, !.query = search]

\* the assignments of normalizeUrl to the parsed urlObj.  The hostname setter
\* ignores an opaque-path URL and an empty value, the pathname setter an
\* opaque-path URL; urlObj.search is '' for no query and for "?" alone.
NormalizeParsed(u) ==
    [(IF u.query # <<>> THEN WithSearch(u, SerializeParams(ImportantParams(u.query)))
      ELSE u)
        EXCEPT !.host = IF u.special /\ StripWww(LowerSeq(u.host)) # <<>>
                        THEN StripWww(LowerSeq(u.host)) ELSE u.host,
               !.hasFragment = FALSE,
               !.fragment = <<>>,
               !.path = IF u.special THEN NormalizePath(u.path) ELSE u.path]

normalizeUrl(url) ==
    IF ~ParseURL(url).ok THEN url ELSE Href(NormalizeParsed(ParseURL(url)))

(***************************************************************************)
(* The URL predicates.                                                     *)
(***************************************************************************)
\* the file names of the alphabet that end in .pdf .jpg .jpeg .png .gif .zip
ExcludedExtensionTokens == {"f.pdf", "i.png"}

\* the words of the alphabet that start with admin, login, logout, register
ExcludedWordTokens == {"admin", "login", "logout", "register"}

\* the tests of isValidPageUrl on the parsed urlObj
IsPageUrl(url, u) ==
    /\ u.ok
    /\ ~(u.path # <<>> /\ LowerTok(u.path[Len(u.path)]) \in ExcludedExtensionTokens)
    /\ ~(LowerTok(url[1]) \in {"mailto", "tel", "javascript", "ftp", "data"}
         /\ url[2] = ":")
    /\ u.scheme \in {"http", "https"}

isValidPageUrl(url) == IsPageUrl(url, ParseURL(url))

\* excludedPaths.some(path => urlLower.includes(path))
HasExcludedPath(l) ==
    \E i \in 1..(Len(l) - 1) :
        /\ l[i] = "/"
        /\ \/ l[i + 1] \in ExcludedWordTokens
           \/ l[i + 1] = "api" /\ i + 2 <= Len(l) /\ l[i + 2] = "/"

ContainsExcludedPath(url) == HasExcludedPath(LowerSeq(url))

SameHost(a, b) == a.ok /\ b.ok /\ a.host = b.host

\* a host test that compares the schemes instead of the hostnames
isSameScheme(url, baseUrl) ==
    ParseURL(url).ok /\ ParseURL(baseUrl).ok
    /\ ParseURL(url).scheme = ParseURL(baseUrl).scheme

isSameDomain(url, baseUrl) == SameHost(ParseURL(url), ParseURL(baseUrl))

isValidUrl(string) == ParseURL(string).ok

(***************************************************************************)
(* The crawler object.  The operations below are functions from the state  *)
(* of the object (a record c of its fields) to its next state; the actions *)
(* further down install their results in the variables.                    *)
(***************************************************************************)
VARIABLES
    visitedUrls,     \* this.visitedUrls: Set
    urlsToCrawl,     \* this.urlsToCrawl: Set, kept in insertion order
    failedUrls,      \* this.failedUrls: Set, kept in insertion order
    isCrawling,      \* this.isCrawling
    isPaused,        \* this.isPaused
    stats,           \* this.stats
    timeTracking,    \* this.timeTracking
    config,          \* this.config
    loops,           \* the activations of startCrawling/crawlAllPages, one per start
    startError,      \* what the last startCrawling call threw ("" for nothing)
    configChanged,   \* history: updateConfig changed maxPages since the last start
    extractedLinks,  \* history: the links extracted from the pages fetched since the
                     \* last start, canonicalised, with the seed they were offered under
    probe            \* the argument and results of the pure functions under test

\* pageTimes keeps the last 50 samples (crawler.js line 92)
HistoryLimit == 50

Range(s) == {s[i] : i \in 1..Len(s)}

\* Set.prototype.add on an insertion-ordered set
SetAdd(s, x) == IF x \in Range(s) THEN s ELSE Append(s, x)

ZeroStats ==
    [totalDiscovered |-> 0, successfullyCrawled |-> 0, failed |-> 0,
     duplicates |-> 0, external |-> 0]

\* averageTimePerPage is the fraction sum/len; 0 is 0/1.  startTime 0 is null.
ZeroTimeTracking ==
    [startTime |-> 0, averageTimePerPage |-> [sum |-> 0, len |-> 1], pageTimes |-> <<>>]

This ==
    [visitedUrls |-> visitedUrls, urlsToCrawl |-> urlsToCrawl, failedUrls |-> failedUrls,
     isCrawling |-> isCrawling, isPaused |-> isPaused, stats |-> stats,
     timeTracking |-> timeTracking, config |-> config]

Install(c) ==
    /\ visitedUrls' = c.visitedUrls
    /\ urlsToCrawl' = c.urlsToCrawl
    /\ failedUrls' = c.failedUrls
    /\ isCrawling' = c.isCrawling
    /\ isPaused' = c.isPaused
    /\ stats' = c.stats
    /\ timeTracking' = c.timeTracking
    /\ config' = c.config

\* a reset that leaves failedUrls alone
resetStateKeepsFailed(c) ==
    [c EXCEPT !.visitedUrls = {}, !.urlsToCrawl = <<>>,
              !.stats = ZeroStats, !.timeTracking = ZeroTimeTracking]

resetState(c) ==
    [c EXCEPT !.visitedUrls = {}, !.urlsToCrawl = <<>>, !.failedUrls = <<>>,
              !.stats = ZeroStats, !.timeTracking = ZeroTimeTracking]

RECURSIVE SumSeq(_)
SumSeq(s) == IF s = <<>> THEN 0 ELSE s[1] + SumSeq(Tail(s))

\* a recordPageTime that never evicts
recordPageTimeNoEviction(c, pageTime) ==
    LET times == Append(c.timeTracking.pageTimes, pageTime)
    IN [c EXCEPT !.timeTracking.pageTimes = times,
                 !.timeTracking.averageTimePerPage =
                     [sum |-> SumSeq(times), len |-> Len(times)]]

recordPageTime(c, pageTime) ==
    LET pushed == Append(c.timeTracking.pageTimes, pageTime)
        times == IF Len(pushed) > HistoryLimit THEN Tail(pushed) ELSE pushed
    IN [c EXCEPT !.timeTracking.pageTimes = times,
                 !.timeTracking.averageTimePerPage =
                     [sum |-> SumSeq(times), len |-> Len(times)]]

(***************************************************************************)
(* The time estimate.  Durations in ms are fractions num/den, as the       *)
(* average is.                                                             *)
(***************************************************************************)
\* getTimeEstimate answers 'расчет...' below this number of samples
WarmUpSamples == 5

Min(a, b) == IF a <= b THEN a ELSE b

\* formatTime: hours, minutes and seconds, leading zero units dropped
FormatSeconds(seconds) ==
    IF seconds \div 3600 > 0
    THEN <<seconds \div 3600, "h", (seconds \div 60) % 60, "m", seconds % 60, "s">>
    ELSE IF seconds \div 60 > 0
    THEN <<seconds \div 60, "m", seconds % 60, "s">>
    ELSE <<seconds, "s">>

\* Math.floor(milliseconds / 1000) and the rest of formatTime
formatTime(ms) == FormatSeconds(ms.num \div (ms.den * 1000))

\* pagesProcessed of getTimeEstimate and getProgressData
PagesProcessed(c) == Cardinality(c.visitedUrls) + Len(c.failedUrls)

PagesRemaining(c) ==
    Min(Len(c.urlsToCrawl), c.config.maxPages - PagesProcessed(c))

\* pagesRemaining * averageTimePerPage
EstimatedTimeMs(c) ==
    [num |-> PagesRemaining(c) * c.timeTracking.averageTimePerPage.sum,
     den |-> c.timeTracking.averageTimePerPage.len]

\* status names the three answers: 'расчет...', 'завершается...' and a time
\* a getTimeEstimate that extrapolates from the first sample on
getTimeEstimateNoWarmUp(c) ==
    IF PagesRemaining(c) <= 0
    THEN [status |-> "finishing", estimatedTime |-> [num |-> 0, den |-> 1],
          formatted |-> <<"finishing">>]
    ELSE [status |-> "estimate", estimatedTime |-> EstimatedTimeMs(c),
          formatted |-> formatTime(EstimatedTimeMs(c))]

getTimeEstimate(c) ==
    IF Len(c.timeTracking.pageTimes) < WarmUpSamples
    THEN [status |-> "warming up", estimatedTime |-> [num |-> 0, den |-> 1],
          formatted |-> <<"warming up">>]
    ELSE IF PagesRemaining(c) <= 0
    THEN [status |-> "finishing", estimatedTime |-> [num |-> 0, den |-> 1],
          formatted |-> <<"finishing">>]
    ELSE [status |-> "estimate", estimatedTime |-> EstimatedTimeMs(c),
          formatted |-> formatTime(EstimatedTimeMs(c))]

\* getProgressData without the fields that read the clock or round for display
getProgressData(c) ==
    [stats |-> c.stats,
     visited |-> Cardinality(c.visitedUrls),
     queued |-> Len(c.urlsToCrawl),
     failed |-> Len(c.failedUrls),
     timeEstimate |-> getTimeEstimate(c),
     pagesProcessed |-> PagesProcessed(c)]

shouldCrawlUrl(c, url) ==
    /\ isValidPageUrl(url)
    /\ ~(Cardinality(c.visitedUrls) >= c.config.maxPages)
    /\ ~ContainsExcludedPath(url)

\* a membership test that forgets visitedUrls
IsKnownUnvisited(c, url) ==
    \/ url \in Range(c.urlsToCrawl)
    \/ url \in Range(c.failedUrls)

IsKnown(c, url) ==
    \/ url \in c.visitedUrls
    \/ url \in Range(c.urlsToCrawl)
    \/ url \in Range(c.failedUrls)

\* a forEach callback that counts a link only when it does not queue it
OfferUrlUncounted(c, url, baseUrl) ==
    IF ~isSameDomain(normalizeUrl(url), baseUrl)
    THEN [c EXCEPT !.stats.totalDiscovered = @ + 1, !.stats.external = @ + 1]
    ELSE IF IsKnown(c, normalizeUrl(url))
    THEN [c EXCEPT !.stats.totalDiscovered = @ + 1, !.stats.duplicates = @ + 1]
    ELSE IF shouldCrawlUrl(c, normalizeUrl(url))
    THEN [c EXCEPT !.urlsToCrawl = Append(@, normalizeUrl(url))]
    ELSE [c EXCEPT !.stats.totalDiscovered = @ + 1]

\* the body of the forEach callback of processNewUrls, for one url
OfferUrl(c, url, baseUrl) ==
    LET c1 == [c EXCEPT !.stats.totalDiscovered = @ + 1]
        normalizedUrl == normalizeUrl(url)
    IN IF ~isSameDomain(normalizedUrl, baseUrl)
       THEN [c1 EXCEPT !.stats.external = @ + 1]
       ELSE IF IsKnown(c1, normalizedUrl)
       THEN [c1 EXCEPT !.stats.duplicates = @ + 1]
       ELSE IF shouldCrawlUrl(c1, normalizedUrl)
       THEN [c1 EXCEPT !.urlsToCrawl = Append(@, normalizedUrl)]
       ELSE c1

\* a processNewUrls that offers the first link only
processNewUrlsFirstOnly(c, newUrls, baseUrl) ==
    IF newUrls = <<>> THEN c ELSE OfferUrl(c, newUrls[1], baseUrl)

RECURSIVE processNewUrls(_, _, _)
processNewUrls(c, newUrls, baseUrl) ==
    IF newUrls = <<>> THEN c
    ELSE processNewUrls(OfferUrl(c, newUrls[1], baseUrl), Tail(newUrls), baseUrl)

(***************************************************************************)
(* Link extraction.  A document is the sequence, in document order, of the *)
(* (tag, attribute value) pairs that the five patterns can match.          *)
(***************************************************************************)
\* the patterns array: <a href>, <link href>, <img src>, <script src>, <iframe src>
LinkTags == <<"a", "link", "img", "script", "iframe">>

\* new URL(href, baseUrl): a parse result; ok is FALSE where the constructor throws
ResolveUrl(href, baseUrl) ==
    IF Len(href) >= 2 /\ href[1] \in SchemeTokens /\ href[2] = ":"
    THEN ParseURL(href)
    ELSE
      LET b == ParseURL(baseUrl)
          origin == <<b.scheme, ":", "/", "/">> \o b.host
          lastSlash == CHOOSE i \in 0..Len(b.path) :
                          /\ i > 0 => b.path[i] = "/"
                          /\ \A j \in (i + 1)..Len(b.path) : b.path[j] # "/"
      IN IF ~b.ok \/ ~b.special THEN ParseFailure
         ELSE IF href[1] = "/" /\ Len(href) >= 2 /\ href[2] = "/"
         THEN ParseURL(<<b.scheme, ":">> \o href)
         ELSE IF href[1] = "/" THEN ParseURL(origin \o href)
         ELSE IF href[1] = "?" THEN ParseURL(origin \o b.path \o href)
         ELSE IF href[1] = "#"
         THEN ParseURL(Href([b EXCEPT !.hasFragment = FALSE, !.fragment = <<>>]) \o href)
         ELSE ParseURL(origin \o Take(b.path, lastSlash) \o href)

\* the matches of one pattern, in document order
MatchesOf(html, tag) == SelectSeq(html, LAMBDA m : m.tag = tag)

\* the matches in the order the nested loops visit them: pattern by pattern
RECURSIVE MatchesInLoopOrder(_, _)
MatchesInLoopOrder(html, tags) ==
    IF tags = <<>> THEN <<>>
    ELSE MatchesOf(html, tags[1]) \o MatchesInLoopOrder(html, Tail(tags))

\* urls.add(new URL(href, baseUrl).href) for each match, invalid ones ignored
RECURSIVE AddResolved(_, _, _)
AddResolved(urls, matches, baseUrl) ==
    IF matches = <<>> THEN urls
    ELSE LET href == matches[1].href
             r == ResolveUrl(href, baseUrl)
         IN AddResolved(IF href # <<>> /\ r.ok THEN SetAdd(urls, Href(r)) ELSE urls,
                        Tail(matches), baseUrl)

extractUrlsFromHtml(html, baseUrl) ==
    AddResolved(<<>>, MatchesInLoopOrder(html, LinkTags), baseUrl)

(***************************************************************************)
(* The crawl loop.  An activation of startCrawling runs without            *)
(* interruption from one await to the next; pc names the await it is       *)
(* suspended at:                                                           *)
(*   "fetch"  in crawlSinglePage, awaiting the transport                   *)
(*   "delay"  await this.delay(this.config.delay), end of an iteration     *)
(*   "pause"  await this.delay(100), the iteration that found isPaused     *)
(*   "done"   crawlAllPages returned and completeCrawling ran              *)
(***************************************************************************)
\* a completion that zeroes the counters
completeCrawlingZeroesStats(c) == [c EXCEPT !.isCrawling = FALSE, !.stats = ZeroStats]

completeCrawling(c) == [c EXCEPT !.isCrawling = FALSE]

\* a stop that leaves isCrawling alone
stopCrawlingKeepsCrawling(c) == [c EXCEPT !.isPaused = FALSE]

stopCrawling(c) == [c EXCEPT !.isCrawling = FALSE, !.isPaused = FALSE]

\* a toggle that also empties the queue
togglePauseDropsQueue(c) == [c EXCEPT !.isPaused = ~@, !.urlsToCrawl = <<>>]

togglePause(c) == [c EXCEPT !.isPaused = ~@]

\* a while condition without the page budget
LoopConditionNoBudget(c) ==
    /\ Len(c.urlsToCrawl) > 0
    /\ c.isCrawling

\* the while condition of crawlAllPages
LoopCondition(c) ==
    /\ Len(c.urlsToCrawl) > 0
    /\ c.isCrawling
    /\ Cardinality(c.visitedUrls) < c.config.maxPages

\* a loop that takes the URL queued last
LoopResumeTakesLast(c) ==
    IF ~LoopCondition(c)
    THEN [c |-> completeCrawling(c), pc |-> "done", url |-> <<>>]
    ELSE IF c.isPaused
    THEN [c |-> c, pc |-> "pause", url |-> <<>>]
    ELSE IF c.urlsToCrawl[Len(c.urlsToCrawl)] \in c.visitedUrls
    THEN [c |-> recordPageTime([c EXCEPT !.urlsToCrawl = Take(@, Len(@) - 1)], 0),
          pc |-> "delay", url |-> <<>>]
    ELSE [c |-> [c EXCEPT !.urlsToCrawl = Take(@, Len(@) - 1),
                          !.visitedUrls = @ \cup {c.urlsToCrawl[Len(c.urlsToCrawl)]}],
          pc |-> "fetch", url |-> c.urlsToCrawl[Len(c.urlsToCrawl)]]

\* a loop that leaves the URL it takes in the queue
LoopResumeKeepsUrl(c) ==
    IF ~LoopCondition(c)
    THEN [c |-> completeCrawling(c), pc |-> "done", url |-> <<>>]
    ELSE IF c.isPaused
    THEN [c |-> c, pc |-> "pause", url |-> <<>>]
    ELSE IF c.urlsToCrawl[1] \in c.visitedUrls
    THEN [c |-> recordPageTime(c, 0), pc |-> "delay", url |-> <<>>]
    ELSE [c |-> [c EXCEPT !.visitedUrls = @ \cup {c.urlsToCrawl[1]}],
          pc |-> "fetch", url |-> c.urlsToCrawl[1]]

\* crawlAllPages from its while condition to the next await
LoopResume(c) ==
    IF ~LoopCondition(c)
    THEN [c |-> completeCrawling(c), pc |-> "done", url |-> <<>>]
    ELSE IF c.isPaused
    THEN [c |-> c, pc |-> "pause", url |-> <<>>]
    ELSE
      LET currentUrl == c.urlsToCrawl[1]
          c1 == [c EXCEPT !.urlsToCrawl = Tail(@)]
      IN IF currentUrl \in c1.visitedUrls
         \* crawlSinglePage returns at once; the page time is 0 ms
         THEN [c |-> recordPageTime(c1, 0), pc |-> "delay", url |-> <<>>]
         ELSE [c |-> [c1 EXCEPT !.visitedUrls = @ \cup {currentUrl}],
               pc |-> "fetch", url |-> currentUrl]

\* a crawlSinglePage that does not count a redirect
SettleSuccessIgnoresRedirect(c, url, outcome) ==
    [c EXCEPT !.stats.successfullyCrawled = @ + 1]

\* crawlSinglePage after a successful fetch, up to the call of processNewUrls
SettleSuccess(c, url, outcome) ==
    LET c1 == IF outcome.finalUrl # url
              THEN [c EXCEPT !.stats.duplicates = @ + 1] ELSE c
    IN [c1 EXCEPT !.stats.successfullyCrawled = @ + 1]

\* a crawlSinglePage whose catch block does nothing
crawlSinglePageSettleDropsFailure(c, url, baseUrl, outcome) ==
    IF outcome.ok
    THEN processNewUrls(SettleSuccess(c, url, outcome),
                        extractUrlsFromHtml(outcome.content, outcome.finalUrl),
                        baseUrl)
    ELSE c

\* crawlSinglePage from the transport's answer to its return
crawlSinglePageSettle(c, url, baseUrl, outcome) ==
    IF outcome.ok
    THEN processNewUrls(SettleSuccess(c, url, outcome),
                        extractUrlsFromHtml(outcome.content, outcome.finalUrl),
                        baseUrl)
    ELSE [c EXCEPT !.failedUrls = SetAdd(@, url), !.stats.failed = @ + 1]

(***************************************************************************)
(* getResults.  Array.prototype.sort() without a comparator orders strings *)
(* by their UTF-16 code units.  TokensInOrder lists the tokens of the      *)
(* model in that order; URLs are compared token by token, which agrees     *)
(* with the comparison of the strings for the URLs the sets can hold.      *)
(***************************************************************************)
TokensInOrder ==
    <<"#", "&", ".", "/", "1", "2", "9", ":", "=", "?", "EX", "HTTPS", "Login",
      "UTM_source", "WWW", "a", "a@ex", "admin", "api", "b", "ex", "f.PDF", "f.pdf",
      "fbclid", "frag", "ftp", "http", "https", "i.png", "id", "login", "logout",
      "mailto", "not a url", "other", "register", "top", "utm_source", "www", "x">>

TokenRank(t) == FirstIndex(TokensInOrder, {t})

\* a < b as strings
RECURSIVE StringLess(_, _)
StringLess(a, b) ==
    IF b = <<>> THEN FALSE
    ELSE IF a = <<>> THEN TRUE
    ELSE IF a[1] = b[1] THEN StringLess(Tail(a), Tail(b))
    ELSE TokenRank(a[1]) < TokenRank(b[1])

\* Array.from(set).sort()
RECURSIVE SortUrls(_)
SortUrls(S) ==
    IF S = {} THEN <<>>
    ELSE <<CHOOSE u \in S : \A v \in S \ {u} : StringLess(u, v)>>
         \o SortUrls(S \ {CHOOSE u \in S : \A v \in S \ {u} : StringLess(u, v)})

getResults(c) ==
    [urls |-> SortUrls(c.visitedUrls),
     stats |-> c.stats,
     failedUrls |-> c.failedUrls,
     totalPages |-> Cardinality(c.visitedUrls)]

(***************************************************************************)
(* Inputs.                                                                 *)
(***************************************************************************)
Https(host, rest) == <<"https", ":", "/", "/">> \o host \o rest

\* what the user types as the start URL
SeedEx == <<"HTTPS", ":", "/", "/", "WWW", ".", "EX", "/">>
SeedOtherLogin == Https(<<"other">>, <<"/", "login">>)
SeedGarbage == <<"not a url">>
SeedInputs == {SeedEx, SeedOtherLogin, SeedGarbage}

\* attribute values found in pages
HrefA == Https(<<"ex">>, <<"/", "a", "/">>)
HrefA2 == <<"HTTPS", ":", "/", "/", "WWW", ".", "ex", "/", "/", "a", "#", "top">>
HrefB == Https(<<"ex">>, <<"/", "b", "?", "utm_source", "=", "1">>)
HrefOther == Https(<<"other">>, <<"/", "x">>)
HrefPdf == Https(<<"ex">>, <<"/", "f.pdf">>)
HrefOtherPdf == Https(<<"other">>, <<"/", "f.PDF">>)
HrefMail == <<"mailto", ":", "a@ex">>
HrefLogin == Https(<<"ex">>, <<"/", "Login">>)
HrefBad == <<"https", ":", "/", "/">>
HrefRel == <<"/", "a">>
Hrefs ==
    {HrefA, HrefA2, HrefB, HrefOther, HrefPdf, HrefOtherPdf, HrefMail, HrefLogin,
     HrefBad, HrefRel}

Link(tag, href) == [tag |-> tag, href |-> href]

\* the documents the transport can answer with
PageEmpty == <<>>
PageSite ==
    <<Link("a", HrefA), Link("a", HrefOther), Link("a", HrefPdf), Link("a", HrefB)>>
PageMisc ==
    <<Link("a", HrefMail), Link("img", HrefOtherPdf), Link("a", HrefLogin),
      Link("a", HrefA2), Link("a", HrefBad)>>
Pages == {PageEmpty, PageSite, PageMisc}

\* fetchWithProxy answers with finalUrl = url, and so does fetchWithPuppeteer
\* when the message it receives is the one of its own frame
FetchOutcomes(url) ==
    {[ok |-> FALSE, content |-> <<>>, finalUrl |-> url]}
    \cup {[ok |-> TRUE, content |-> p, finalUrl |-> url] : p \in Pages}

\* Date.now() - pageStartTime for a page that was fetched
PageTimes == {1000 * k : k \in 1..MaxPageSecs}

\* the constructor's config.maxPages
DefaultMaxPages == 500

\* what the maxPages field can hold
MaxPagesInputs == (-1)..MaxBudget

\* parseInt(document.getElementById('maxPages').value) || 500
MaxPagesOf(input) == IF input = 0 THEN DefaultMaxPages ELSE input

\* what the form holds when a start is requested: the site under every budget
\* (parseInt lets a negative number through), the other site under the
\* largest one, and text that is no URL
StartInputs ==
    {[startUrl |-> SeedEx, maxPages |-> n] : n \in (-1)..MaxBudget}
    \cup {[startUrl |-> SeedOtherLogin, maxPages |-> MaxBudget],
          [startUrl |-> SeedGarbage, maxPages |-> -1]}

(***************************************************************************)
(* The state machine.                                                      *)
(***************************************************************************)
vars ==
    <<visitedUrls, urlsToCrawl, failedUrls, isCrawling, isPaused, stats,
      timeTracking, config, loops, startError, configChanged, extractedLinks, probe>>

NoProbe == [stage |-> "none"]

Init ==
    /\ visitedUrls = {}
    /\ urlsToCrawl = <<>>
    /\ failedUrls = <<>>
    /\ isCrawling = FALSE
    /\ isPaused = FALSE
    /\ stats = ZeroStats
    /\ timeTracking = ZeroTimeTracking
    /\ config = [maxPages |-> DefaultMaxPages]
    /\ loops = <<>>
    /\ startError = ""
    /\ configChanged = FALSE
    /\ extractedLinks = {}
    /\ probe = NoProbe

\* The start button or the Enter key: updateConfig({maxPages, ...}) and then
\* startCrawling(startUrl), up to its first await
StartCrawling(startUrl, maxPagesInput) ==
    LET maxPages == MaxPagesOf(maxPagesInput)
        configured == [This EXCEPT !.config.maxPages = maxPages]
    IN IF ~isValidUrl(startUrl)
       THEN /\ startError' = "invalid URL"
            /\ Install(configured)
            /\ configChanged' = (configChanged \/ maxPages # config.maxPages)
            /\ UNCHANGED <<loops, extractedLinks, probe>>
       ELSE /\ Len(loops) < MaxStarts
            /\ LET c0 == resetState(configured)
                   baseUrl == normalizeUrl(startUrl)
                   c1 == [c0 EXCEPT !.isCrawling = TRUE, !.isPaused = FALSE,
                                    \* Date.now(): the instant of the k-th start is k
                                    !.timeTracking.startTime = Len(loops) + 1,
                                    !.urlsToCrawl = SetAdd(@, baseUrl)]
                   r == LoopResume(c1)
               IN /\ Install(r.c)
                  /\ loops' = Append(loops, [pc |-> r.pc, url |-> r.url,
                                             baseUrl |-> baseUrl, stopped |-> FALSE])
            /\ startError' = ""
            /\ configChanged' = FALSE
            /\ extractedLinks' = {}
            /\ UNCHANGED probe

\* the stop button; stopped records, for the properties, that stopCrawling was
\* called while the activation had not returned
StopCrawling ==
    /\ Install(stopCrawling(This))
    /\ loops' = [i \in 1..Len(loops) |->
                    IF loops[i].pc # "done" THEN [loops[i] EXCEPT !.stopped = TRUE]
                    ELSE loops[i]]
    /\ UNCHANGED <<startError, configChanged, extractedLinks, probe>>

TogglePause ==
    /\ Install(togglePause(This))
    /\ UNCHANGED <<loops, startError, configChanged, extractedLinks, probe>>

\* the timer of delay(...) fires: back to the while condition
LoopWake(i) ==
    /\ loops[i].pc \in {"delay", "pause"}
    /\ LET r == LoopResume(This)
       IN /\ Install(r.c)
          /\ loops' = [loops EXCEPT ![i].pc = r.pc, ![i].url = r.url]
    /\ UNCHANGED <<startError, configChanged, extractedLinks, probe>>

\* the links of a fetched page as processNewUrls sees them: canonicalised, with
\* the seed of the activation
ExtractedFrom(outcome, baseUrl) ==
    IF outcome.ok
    THEN {[url |-> normalizeUrl(u), baseUrl |-> baseUrl] :
              u \in Range(extractUrlsFromHtml(outcome.content, outcome.finalUrl))}
    ELSE {}

\* the transport answers: the rest of crawlSinglePage, recordPageTime,
\* updateProgress, and the loop suspends in delay(config.delay)
FetchSettleEngine(i, outcome, pageTime) ==
    /\ loops[i].pc = "fetch"
    /\ Install(recordPageTime(
           crawlSinglePageSettle(This, loops[i].url, loops[i].baseUrl, outcome),
           pageTime))
    /\ loops' = [loops EXCEPT ![i].pc = "delay", ![i].url = <<>>]
    /\ extractedLinks' = extractedLinks \cup ExtractedFrom(outcome, loops[i].baseUrl)
    /\ UNCHANGED <<startError, configChanged>>

\* the same, with what updateProgress hands to the page left out
FetchSettle(i, outcome, pageTime) ==
    /\ FetchSettleEngine(i, outcome, pageTime)
    /\ UNCHANGED probe

Next ==
    \/ \E in \in StartInputs : StartCrawling(in.startUrl, in.maxPages)
    \/ StopCrawling
    \/ TogglePause
    \/ \E i \in 1..Len(loops) : LoopWake(i)
    \/ \E i \in 1..Len(loops) : \E o \in FetchOutcomes(loops[i].url) :
          \E t \in PageTimes : FetchSettle(i, o, t)

Spec == Init /\ [][Next]_vars

(***************************************************************************)
(* Vocabulary of the properties.                                           *)
(***************************************************************************)
Known == visitedUrls \cup Range(urlsToCrawl) \cup Range(failedUrls)

HostOf(url) == ParseURL(url).host

\* excluded content: a scheme other than http/https, a path ending in a
\* denylisted extension, or a path containing an excluded path
IsExcludedContent(url) ==
    LET u == ParseURL(url)
    IN \/ ~u.ok
       \/ u.scheme \notin {"http", "https"}
       \/ u.path # <<>> /\ LowerTok(u.path[Len(u.path)]) \in ExcludedExtensionTokens
       \/ ContainsExcludedPath(u.path)

\* the states of the object before each offer of processNewUrls(c, urls, baseUrl)
RECURSIVE StatesBeforeOffers(_, _, _)
StatesBeforeOffers(c, urls, baseUrl) ==
    IF urls = <<>> THEN <<>>
    ELSE <<c>> \o StatesBeforeOffers(OfferUrl(c, urls[1], baseUrl), Tail(urls), baseUrl)

\* the offers that the activations awaiting their fetch make when it succeeds:
\* for every document the transport can answer with, every link in it, with the
\* state of the object at the moment of the offer
PendingOffers ==
    UNION { UNION {
        LET urls == extractUrlsFromHtml(o.content, o.finalUrl)
            before == StatesBeforeOffers(SettleSuccess(This, loops[i].url, o),
                                         urls, loops[i].baseUrl)
        IN {[c |-> before[k], url |-> urls[k], baseUrl |-> loops[i].baseUrl] :
                k \in 1..Len(urls)}
        : o \in {x \in FetchOutcomes(loops[i].url) : x.ok} }
        : i \in {j \in 1..Len(loops) : loops[j].pc = "fetch"} }

\* the state c after an offer that bumps the given counters and nothing else
Bumped(c, discovered, external, duplicates) ==
    [c EXCEPT !.stats.totalDiscovered = @ + discovered,
              !.stats.external = @ + external,
              !.stats.duplicates = @ + duplicates]

(***************************************************************************)
(* C1: in every reachable state visitedUrls and failedUrls are disjoint: a *)
(* URL whose fetch failed is in failedUrls and not in visitedUrls.         *)
(* Violated: crawlSinglePage adds the URL to visitedUrls before the fetch  *)
(* and never removes it when the fetch fails.                              *)
(***************************************************************************)
C1_VisitedFailedDisjoint == visitedUrls \cap Range(failedUrls) = {}

C3_NoRequeue ==
    /\ \A u \in visitedUrls : u \notin Range(urlsToCrawl)
    /\ \A i, j \in 1..Len(urlsToCrawl) : urlsToCrawl[i] = urlsToCrawl[j] => i = j

\* a link to an already visited page was offered again and the queue has work
C3_Witness ==
    /\ stats.duplicates > 0
    /\ Cardinality(visitedUrls) >= 2
    /\ Len(urlsToCrawl) > 0

(***************************************************************************)
(* C4: offering a link whose canonical host differs from the host of the   *)
(* seed it is offered under bumps totalDiscovered and external by one and  *)
(* changes nothing else: not urlsToCrawl, duplicates, visitedUrls or       *)
(* failedUrls.                                                             *)
(***************************************************************************)
C4_ExternalOffer ==
    \A o \in PendingOffers :
        HostOf(normalizeUrl(o.url)) # HostOf(o.baseUrl)
            => OfferUrl(o.c, o.url, o.baseUrl) = Bumped(o.c, 1, 1, 0)

\* a page is being processed whose earlier links have been offered and whose
\* next link is to another host than the seed's
C4_Witness ==
    \E o \in PendingOffers :
        /\ HostOf(normalizeUrl(o.url)) # HostOf(o.baseUrl)
        /\ o.c.stats.totalDiscovered > 0
        /\ Len(o.c.urlsToCrawl) > 0

(***************************************************************************)
(* C5: offering a URL whose canonical form is already in urlsToCrawl,      *)
(* visitedUrls or failedUrls leaves the queue unchanged and bumps          *)
(* duplicates by one (and totalDiscovered), nothing else.                  *)
(* Violated: the host test comes first, and a URL of another host gets     *)
(* into the sets once the activation of an earlier start is still running  *)
(* after a new start.                                                      *)
(***************************************************************************)
C5_KnownOfferIsDuplicate ==
    \A o \in PendingOffers :
        IsKnown(o.c, normalizeUrl(o.url))
            => OfferUrl(o.c, o.url, o.baseUrl) = Bumped(o.c, 1, 0, 1)

(***************************************************************************)
(* C6: offering a link that canonicalisation rejects (unsupported scheme,  *)
(* excluded extension, excluded path), whatever its host, bumps only       *)
(* totalDiscovered.                                                        *)
(* Violated: a rejected link of another host, or with no host (mailto:),   *)
(* is counted as external.                                                 *)
(***************************************************************************)
C6_RejectedOfferOnlyDiscovered ==
    \A o \in PendingOffers :
        IsExcludedContent(normalizeUrl(o.url))
            => OfferUrl(o.c, o.url, o.baseUrl) = Bumped(o.c, 1, 0, 0)

(***************************************************************************)
(* C7: no URL in urlsToCrawl, visitedUrls or failedUrls is excluded        *)
(* content; this holds for the seed as for discovered links.               *)
(* Violated: startCrawling queues any seed that parses.                    *)
(***************************************************************************)
C7_NoExcludedContent == \A u \in Known : ~IsExcludedContent(u)

(***************************************************************************)
(* C10: startCrawling(seed) fails whenever the seed does not canonicalise  *)
(* (unparseable, scheme other than http/https, excluded extension or       *)
(* path), and then leaves the three URL sets, the stats, the time tracker  *)
(* and the run flags as they were.                                         *)
(* Violated: isValidUrl only asks whether the seed parses.                 *)
(***************************************************************************)
C10_InvalidSeedRejected ==
    [][\A u \in SeedInputs : \A n \in MaxPagesInputs :
          (StartCrawling(u, n) /\ IsExcludedContent(normalizeUrl(u)))
              => /\ startError' # ""
                 /\ UNCHANGED <<visitedUrls, urlsToCrawl, failedUrls, stats,
                                timeTracking, isCrawling, isPaused>>]_vars

(***************************************************************************)
(* C11: whatever an earlier run left behind, a successful start begins     *)
(* from a full reset.  The step of the start runs on to the first await of *)
(* the activation, so after it: failedUrls is empty, the five counters are *)
(* 0, the time history is empty, the engine is not paused, and the         *)
(* canonical seed is the only URL in the sets: taken and in visitedUrls    *)
(* with the engine crawling when the budget allows a page, and otherwise   *)
(* still queued with the run completed.                                    *)
(***************************************************************************)
C11_StartResets ==
    [][\A in \in StartInputs :
          (StartCrawling(in.startUrl, in.maxPages) /\ isValidUrl(in.startUrl))
              => /\ failedUrls' = <<>>
                 /\ stats' = ZeroStats
                 /\ timeTracking'.pageTimes = <<>>
                 /\ ~isPaused'
                 /\ IF config'.maxPages >= 1
                    THEN /\ visitedUrls' = {normalizeUrl(in.startUrl)}
                         /\ urlsToCrawl' = <<>>
                         /\ isCrawling'
                    ELSE /\ visitedUrls' = {}
                         /\ urlsToCrawl' = <<normalizeUrl(in.startUrl)>>]_vars

\* a second start was made after a run that has ended, and the sets hold the
\* new seed only
C11_Witness ==
    /\ Len(loops) = 2
    /\ loops[1].pc = "done"
    /\ loops[2].pc = "fetch"
    /\ visitedUrls = {loops[2].baseUrl}
    /\ failedUrls = <<>>
    /\ stats = ZeroStats

(***************************************************************************)
(* C12: a run ends Completed or Stopped, never both: an activation on      *)
(* which stopCrawling was called does not go on to completeCrawling, with  *)
(* its final summary and showResults.                                      *)
(* Violated: startCrawling calls completeCrawling whenever crawlAllPages   *)
(* returns, also when the loop ended because stopCrawling cleared          *)
(* isCrawling.                                                             *)
(***************************************************************************)
C12_CompletedOrStopped ==
    \A i \in 1..Len(loops) : ~(loops[i].stopped /\ loops[i].pc = "done")

\* the last start has not been followed by another one
CurrentRun == Len(loops)

\* s is an initial part of t
IsPrefix(s, t) == Len(s) <= Len(t) /\ SubSeq(t, 1, Len(s)) = s

(***************************************************************************)
(* C13: after stopCrawling was called during a run, and as long as no new  *)
(* start is made, no URL is removed from urlsToCrawl: the loop exits at    *)
(* its next condition check, whether it was running or paused; the page in *)
(* flight may finish and add to the queue.                                 *)
(***************************************************************************)
C13_StopExitsLoop ==
    [][(/\ Len(loops) > 0
        /\ loops[CurrentRun].stopped
        /\ Len(loops') = Len(loops))
           => IsPrefix(urlsToCrawl, urlsToCrawl')]_vars

\* a stopped run has returned with work left in the queue and budget left
C13_Witness ==
    /\ Len(loops) > 0
    /\ loops[CurrentRun].stopped
    /\ loops[CurrentRun].pc = "done"
    /\ Len(urlsToCrawl) > 0
    /\ Cardinality(visitedUrls) < config.maxPages

(***************************************************************************)
(* C14: togglePause changes the paused flag and nothing else (the three    *)
(* sets, the stats and the time history stay as they are), and a loop      *)
(* iteration that finds the engine paused takes no URL from urlsToCrawl    *)
(* and records no time sample: it waits again, before recordPageTime and   *)
(* updateProgress are reached.                                             *)
(***************************************************************************)
C14_PauseIsIdle ==
    [][/\ TogglePause
           => /\ isPaused' = ~isPaused
              /\ UNCHANGED <<visitedUrls, urlsToCrawl, failedUrls, stats,
                             timeTracking, isCrawling>>
       /\ \A i \in 1..Len(loops) :
              (LoopWake(i) /\ isPaused /\ LoopCondition(This))
                  => /\ loops'[i].pc = "pause"
                     /\ UNCHANGED <<visitedUrls, urlsToCrawl, failedUrls, stats,
                                    timeTracking>>]_vars

\* the loop has found the engine paused with work in the queue, and waits
C14_Witness ==
    /\ isPaused
    /\ isCrawling
    /\ Len(urlsToCrawl) > 0
    /\ Len(loops) = 1
    /\ loops[1].pc = "pause"

(***************************************************************************)
(* C15: a fetch failure is not fatal.  When the fetch of an activation     *)
(* ends without a success being counted, the URL is in failedUrls,         *)
(* stats.failed is one more and stats.successfullyCrawled and the queue    *)
(* are as before, and the activation goes to its pacing delay; and an      *)
(* activation that comes back from a delay with the engine crawling and    *)
(* not paused, a non-empty queue and budget left takes the first queued    *)
(* URL.                                                                    *)
(***************************************************************************)
C15_FailureIsLocal ==
    [][\A i \in 1..Len(loops) :
          /\ (/\ Len(loops') = Len(loops)
              /\ loops[i].pc = "fetch"
              /\ loops'[i].pc # "fetch"
              /\ stats'.successfullyCrawled = stats.successfullyCrawled)
                 => /\ loops[i].url \in Range(failedUrls')
                    /\ stats' = [stats EXCEPT !.failed = @ + 1]
                    /\ loops'[i].pc = "delay"
                    /\ UNCHANGED <<urlsToCrawl, isCrawling>>
          /\ (LoopWake(i) /\ LoopCondition(This) /\ ~isPaused)
                 => /\ urlsToCrawl' = Tail(urlsToCrawl)
                    /\ loops'[i].pc \in {"fetch", "delay"}]_vars

\* after a failed fetch the loop has taken the next URL and is fetching it
C15_Witness ==
    /\ Len(loops) = 1
    /\ stats.failed > 0
    /\ loops[1].pc = "fetch"
    /\ loops[1].url \notin Range(failedUrls)

\* the names of the counters of stats
Counters == {"totalDiscovered", "successfullyCrawled", "failed", "duplicates", "external"}

(***************************************************************************)
(* C16: within a run no counter of stats ever decreases: every step other  *)
(* than the reset of a successful start leaves each of the five counters   *)
(* as it was or greater.                                                   *)
(***************************************************************************)
C16_CountersMonotonic ==
    [][Len(loops') = Len(loops) => \A k \in Counters : stats'[k] >= stats[k]]_vars

\* every counter has been bumped and the run has ended
C16_Witness ==
    /\ \A k \in Counters : stats[k] > 0
    /\ Len(loops) = 1
    /\ loops[1].pc = "done"

\* the activations awaiting their fetch, and those that have not returned
FetchesInFlight == {i \in 1..Len(loops) : loops[i].pc = "fetch"}
ActiveLoops == {i \in 1..Len(loops) : loops[i].pc # "done"}

(***************************************************************************)
(* C17: under every interleaving of start, stop and togglePause with the   *)
(* awaits of the loop, at most one fetch is in flight and at most one      *)
(* crawl loop is active on the engine.                                     *)
(* Violated: startCrawling does not look at isCrawling and does not wait   *)
(* for the earlier activation; the Enter key, or stop followed by start,   *)
(* starts a second loop while the first awaits its fetch.                  *)
(***************************************************************************)
C17_OneLoopOneFetch ==
    /\ Cardinality(FetchesInFlight) <= 1
    /\ Cardinality(ActiveLoops) <= 1

(***************************************************************************)
(* C18: whenever no fetch is in flight, getResults().urls holds the URLs   *)
(* whose fetch succeeded, so none of failedUrls, and totalPages equals     *)
(* stats.successfullyCrawled.                                              *)
(* Violated: urls and totalPages are taken from visitedUrls, which keeps   *)
(* the URLs whose fetch failed (C1).                                       *)
(***************************************************************************)
C18_ResultsAreSuccesses ==
    FetchesInFlight = {}
        => /\ Range(getResults(This).urls) \cap Range(getResults(This).failedUrls) = {}
           /\ getResults(This).totalPages = stats.successfullyCrawled

(***************************************************************************)
(* C19: the result is final once the engine has stopped crawling: from     *)
(* stopCrawling or completeCrawling until the next start, visitedUrls,     *)
(* failedUrls, urlsToCrawl and stats do not change and getResults()        *)
(* returns the same result, also when the stop came while a fetch was in   *)
(* flight.                                                                 *)
(* Violated: stopCrawling returns at once with the fetch still pending;    *)
(* when the transport answers, crawlSinglePage goes on to count the page   *)
(* and to queue its links.                                                 *)
(***************************************************************************)
C19_ResultIsFinal ==
    [][(Len(loops) > 0 /\ ~isCrawling /\ Len(loops') = Len(loops))
          => /\ UNCHANGED <<visitedUrls, failedUrls, urlsToCrawl, stats>>
             /\ getResults(This)' = getResults(This)]_vars

\* the current run has completed by exhausting its queue, without a stop and
\* with budget left
CompletedNaturally ==
    /\ Len(loops) > 0
    /\ loops[CurrentRun].pc = "done"
    /\ ~loops[CurrentRun].stopped
    /\ urlsToCrawl = <<>>
    /\ Cardinality(visitedUrls) < config.maxPages

\* the extracted links that are on the host of the seed they were offered
\* under and are not excluded content
EligibleLinks ==
    {l.url : l \in {x \in extractedLinks :
                       isSameDomain(x.url, x.baseUrl) /\ ~IsExcludedContent(x.url)}}

ChainUrl(k) ==
    IF k = 0 THEN Https(<<"ex">>, <<"/">>)
    ELSE Https(<<"ex">>, <<"/", ToString(k)>>)

ChainIndex(url) == CHOOSE k \in 0..MaxChain : ChainUrl(k) = url

ChainPage(k) ==
    (IF k < MaxChain THEN <<Link("a", ChainUrl(k + 1))>> ELSE <<>>)
    \o (IF k + 1 < MaxChain THEN <<Link("a", ChainUrl(k + 2))>> ELSE <<>>)

\* the page of the chain whose fetch may fail
BrokenPage == 2

ChainOutcomes(url) ==
    {[ok |-> TRUE, content |-> ChainPage(ChainIndex(url)), finalUrl |-> url]}
    \cup (IF ChainIndex(url) = BrokenPage
          THEN {[ok |-> FALSE, content |-> <<>>, finalUrl |-> url]}
          ELSE {})

ChainPageTime(url) == 1000 * (ChainIndex(url) + 1)

\* the page's maxPages field: empty (0, read as the default) or a small budget
TimeBudgets == {0, TightBudget}

TimeStart(maxPagesInput) ==
    /\ Len(loops) = 0
    /\ StartCrawling(ChainUrl(0), maxPagesInput)

\* crawlAllPages from the settling of the fetch to updateProgress
FetchSettleProgress(i, outcome, pageTime) ==
    /\ FetchSettleEngine(i, outcome, pageTime)
    /\ probe' = [stage |-> "progress", data |-> getProgressData(This)']

TimeSettle ==
    /\ Len(loops) = 1
    /\ loops[1].pc = "fetch"
    /\ \E outcome \in ChainOutcomes(loops[1].url) :
          FetchSettleProgress(1, outcome, ChainPageTime(loops[1].url))

TimeWake ==
    /\ Len(loops) = 1
    /\ LoopWake(1)

NextTime ==
    \/ \E n \in TimeBudgets : TimeStart(n)
    \/ TimeSettle
    \/ TimeWake

SpecTime == Init /\ [][NextTime]_vars

\* pages taken from the queue and settled so far in the run
PagesSettled == stats.successfullyCrawled + stats.failed

\* C21: while fewer than 5 pages have been timed the estimate handed to the
\* page is "warming up" with the value 0; from the fifth sample on it is
\* never "warming up" again, but an estimate or "finishing".
C21_WarmUp ==
    probe.stage = "progress" =>
        LET e == probe.data.timeEstimate
        IN  /\ PagesSettled < 5 =>
                /\ e.status = "warming up"
                /\ e.estimatedTime.num = 0
            /\ PagesSettled >= 5 =>
                /\ e.status \in {"estimate", "finishing"}
                /\ e.status = "estimate" => e.estimatedTime.num > 0

\* C21 witness: the fifth sample has just been recorded and a numeric
\* estimate is shown, after four reports of "warming up"
C21_Witness ==
    /\ probe.stage = "progress"
    /\ PagesSettled = 5
    /\ probe.data.timeEstimate.status = "estimate"
    /\ probe.data.timeEstimate.estimatedTime.num > 0

\* the sample recorded for the k-th page taken from the queue of the chain
\* site: pages are taken in the order 0, 1, 2, ...
SampleOf(k) == 1000 * k

\* C22: after n pages have been taken from the queue and settled, failed
\* ones included, the history is the last min(n, 50) samples in arrival
\* order, it never holds more than 50, and the stored average is the sum of
\* those samples over their number.
C22_History ==
    LET n == PagesSettled
        m == Min(n, 50)
        times == timeTracking.pageTimes
    IN  /\ Len(times) = m
        /\ Len(times) <= 50
        /\ \A j \in 1..m : times[j] = SampleOf(n - m + j)
        /\ n > 0 =>
              timeTracking.averageTimePerPage =
                  [sum |-> (1000 * m * (2 * n - m + 1)) \div 2, len |-> m]

\* C22 witness: 52 pages were timed, one of them a failed page, and the
\* history holds the samples of pages 3 to 52
C22_Witness ==
    /\ PagesSettled = 52
    /\ stats.failed = 1
    /\ Len(timeTracking.pageTimes) = 50
    /\ timeTracking.pageTimes[1] = SampleOf(3)
    /\ timeTracking.pageTimes[50] = SampleOf(52)

\* C28: once five pages are timed, the estimate handed to the page after
\* each page is built from min(|queued|, maxPages - processed), processed
\* being the number of pages settled so far with a failed page counted
\* once: pagesProcessed reports that number, "finishing" is shown exactly
\* when the minimum is <= 0, and otherwise the estimate is the minimum times
\* the average.
\* Violated: the count is visitedUrls.size + failedUrls.size, and a failed
\* page is in both sets (C1), so it is counted twice.
C28_PagesRemaining ==
    (probe.stage = "progress" /\ loops[1].pc # "fetch" /\ PagesSettled >= 5) =>
        LET e == probe.data.timeEstimate
            remaining == Min(Len(urlsToCrawl), config.maxPages - PagesSettled)
            avg == timeTracking.averageTimePerPage
        IN  /\ probe.data.pagesProcessed = PagesSettled
            /\ e.status = "finishing" <=> remaining <= 0
            /\ e.status = "estimate" =>
                  e.estimatedTime = [num |-> remaining * avg.sum, den |-> avg.len]

\* C23: while a run is under the budget it was started with, the queue
\* never holds more URLs than the budget leaves room for:
\* |urlsToCrawl| <= maxPages - |visitedUrls|.
\* Violated: shouldCrawlUrl compares only visitedUrls.size with maxPages, so
\* every eligible link of a page is queued while the budget is not used up.
C23_QueueWithinBudget ==
    (Len(loops) > 0 /\ ~configChanged) =>
        Len(urlsToCrawl) <= config.maxPages - Cardinality(visitedUrls)

\* C25: every URL in urlsToCrawl, visitedUrls or failedUrls has the host of
\* the normalised seed of the latest start, also after a start on another
\* site made while a fetch of the earlier activation was in flight.
\* Violated: the earlier activation keeps running on the shared sets (C17);
\* when its fetch settles its links are offered under its own seed and
\* queued, and a failed URL of it is added to failedUrls.
C25_SetsOnSeedHost ==
    Len(loops) > 0 =>
        \A u \in Known : HostOf(u) = HostOf(loops[CurrentRun].baseUrl)

\* C27: a start whose maxPages is not a positive integer is rejected, so
\* that a run that has begun under the configuration of its start has
\* maxPages >= 1 and has taken its seed as the first page.
\* Violated: startCrawling checks the URL only, updateConfig checks nothing,
\* and the form handler replaces 0 and NaN by 500 but passes a negative
\* number on; with maxPages -1 the run begins, the loop condition fails at
\* once and the run completes with its seed still queued.
C27_ConfigValidated ==
    (Len(loops) > 0 /\ ~configChanged) =>
        /\ config.maxPages >= 1
        /\ loops[CurrentRun].baseUrl \in visitedUrls

(***************************************************************************)
(* Termination: the specification SpecLive is one run of the engine with   *)
(* the stop and pause buttons.  The timer of each delay fires and every    *)
(* fetch settles (weak fairness of the two steps of the loop); starts,     *)
(* stop and pause are up to the user and carry no fairness.  A timer that  *)
(* fires while the engine is paused changes nothing.                       *)
(***************************************************************************)
LiveStart ==
    /\ Len(loops) = 0
    /\ \E in \in StartInputs : StartCrawling(in.startUrl, in.maxPages)

LiveWake ==
    /\ Len(loops) = 1
    /\ LoopWake(1)

LiveSettle ==
    /\ Len(loops) = 1
    /\ \E o \in FetchOutcomes(loops[1].url) : \E t \in PageTimes : FetchSettle(1, o, t)

NextLive ==
    \/ LiveStart
    \/ StopCrawling
    \/ TogglePause
    \/ LiveWake
    \/ LiveSettle

SpecLive ==
    /\ Init
    /\ [][NextLive]_vars
    /\ WF_vars(LiveWake)
    /\ WF_vars(LiveSettle)

\* C24: in a run in which the engine is from some moment on never paused
\* while crawling, a started run reaches the end of its loop with
\* isCrawling false (completed or stopped); on the way, every iteration that
\* takes a URL removes the head of the queue, and no queued URL is a
\* visited one, so a URL taken once is never queued again.
C24_RunTerminates ==
    /\ [](Range(urlsToCrawl) \cap visitedUrls = {})
    /\ [][(Len(loops) = 1 /\ loops[1].pc # "fetch" /\ loops'[1].pc = "fetch")
             => /\ urlsToCrawl' = Tail(urlsToCrawl)
                /\ loops'[1].url = urlsToCrawl[1]
                /\ loops'[1].url \in visitedUrls']_vars
    /\ (<>[]~(isCrawling /\ isPaused))
          => [](Len(loops) = 1
                  => <>(Len(loops) = 1 /\ loops[1].pc = "done" /\ ~isCrawling))

\* C24 witness: a run was paused and resumed, crawled the whole site and
\* completed with an empty queue
C24_Witness ==
    /\ Len(loops) = 1
    /\ loops[1].pc = "done"
    /\ ~loops[1].stopped
    /\ ~isCrawling
    /\ urlsToCrawl = <<>>
    /\ Cardinality(visitedUrls) >= 3

\* C31: within one run the queue is first in, first out.  Every URL is in
\* the queue at most once and never again after it was taken; a step either
\* takes nothing and adds the admitted URLs at the end, or takes the head
\* of the queue, marks it visited, and adds the admitted URLs behind the
\* rest.  So a URL admitted before another is taken before it.
C31_QueueIsFifo ==
    /\ [](/\ Cardinality(Range(urlsToCrawl)) = Len(urlsToCrawl)
          /\ Range(urlsToCrawl) \cap visitedUrls = {})
    /\ [][(Len(loops) = 1 /\ Len(loops') = 1)
             => \/ /\ IsPrefix(urlsToCrawl, urlsToCrawl')
                   /\ visitedUrls' = visitedUrls
                \/ /\ urlsToCrawl # <<>>
                   /\ IsPrefix(Tail(urlsToCrawl), urlsToCrawl')
                   /\ loops'[1].pc = "fetch"
                   /\ loops'[1].url = urlsToCrawl[1]
                   /\ visitedUrls' = visitedUrls \cup {urlsToCrawl[1]}]_vars
    /\ [][(Len(loops) = 0 /\ Len(loops') = 1 /\ loops'[1].pc = "fetch")
             => /\ loops'[1].url = loops'[1].baseUrl
                /\ visitedUrls' = {loops'[1].baseUrl}
                /\ urlsToCrawl' = <<>>]_vars

\* C31 witness: /a was admitted before /b; /a has been taken and is being
\* fetched while /b is still queued
C31_Witness ==
    /\ Len(loops) = 1
    /\ loops[1].pc = "fetch"
    /\ loops[1].url = Https(<<"ex">>, <<"/", "a">>)
    /\ urlsToCrawl # <<>>
    /\ urlsToCrawl[1] = Https(<<"ex">>, <<"/", "b">>)
    /\ Https(<<"ex">>, <<"/", "b">>) \notin visitedUrls

\* C32: in one run, whenever no fetch is in flight, stats.failed is the
\* size of failedUrls, successfullyCrawled + failed is the number of URLs
\* taken from the queue (each of them is in visitedUrls, and nothing else
\* is), and totalDiscovered is at least external plus the number of URLs
\* that link discovery queued (all URLs queued or taken but the seed).
C32_CountersAgree ==
    (Len(loops) = 1 /\ loops[1].pc # "fetch") =>
        /\ stats.failed = Len(failedUrls)
        /\ stats.successfullyCrawled + stats.failed = Cardinality(visitedUrls)
        /\ stats.totalDiscovered >=
              stats.external
              + Cardinality((Range(urlsToCrawl) \cup visitedUrls) \ {loops[1].baseUrl})

\* C32 witness: between two pages of a run, after a page that failed and a
\* page whose links were queued or found external
C32_Witness ==
    /\ Len(loops) = 1
    /\ loops[1].pc = "delay"
    /\ stats.failed >= 1
    /\ stats.successfullyCrawled >= 1
    /\ stats.external >= 1
    /\ urlsToCrawl # <<>>

(***************************************************************************)
(* The plain transport: the specification SpecFetch draws a URL and what   *)
(* each of the three routes will do, and runs fetchWithProxy on them, one  *)
(* await at a time.  A route throws (fetch rejects), answers without       *)
(* success (response.ok false), answers with success but fails while its   *)
(* body is read (response.text() rejects), or answers with success and     *)
(* delivers its body.  The body of each route is a different page, so that *)
(* the route a result came from is visible.                                *)
(***************************************************************************)
ProxyRoutes == <<"corsproxy.io", "api.allorigins.win", "proxy.cors.sh">>

RouteKinds == {"throws", "notOk", "bodyThrows", "ok"}

RouteBody(i) == <<PageSite, PageMisc, PageEmpty>>[i]

NoResult == [ok |-> FALSE, content |-> <<>>, finalUrl |-> <<>>, error |-> ""]

FetchProbes ==
    {[stage |-> "fetching", url |-> u, routes |-> k, route |-> 1,
      awaiting |-> "response", tried |-> <<1>>, result |-> NoResult] :
        u \in {HrefA, HrefB}, k \in [1..Len(ProxyRoutes) -> RouteKinds]}

\* continue: the next route of the for loop, or the throw after the loop
NextRoute(p) ==
    IF p.route < Len(ProxyRoutes)
    THEN [p EXCEPT !.route = @ + 1, !.awaiting = "response",
                   !.tried = Append(@, p.route + 1)]
    ELSE [p EXCEPT !.stage = "threw",
                   !.result = [NoResult EXCEPT !.error = "all proxies unavailable"]]

\* a fetchWithProxy that does not look at response.ok
fetchWithProxyStepIgnoresStatus(p) ==
    IF p.awaiting = "response"
    THEN IF p.routes[p.route] = "throws"
         THEN NextRoute(p)
         ELSE [p EXCEPT !.awaiting = "body"]
    ELSE IF p.routes[p.route] = "bodyThrows"
         THEN NextRoute(p)
         ELSE [p EXCEPT !.stage = "returned",
                        !.result = [ok |-> TRUE, content |-> RouteBody(p.route),
                                    finalUrl |-> p.url, error |-> ""]]

\* fetchWithProxy from the settling of one await to the next await or the end
fetchWithProxyStep(p) ==
    IF p.awaiting = "response"
    THEN IF p.routes[p.route] \in {"throws", "notOk"}
         THEN NextRoute(p)
         ELSE [p EXCEPT !.awaiting = "body"]
    ELSE IF p.routes[p.route] = "bodyThrows"
         THEN NextRoute(p)
         ELSE [p EXCEPT !.stage = "returned",
                        !.result = [ok |-> TRUE, content |-> RouteBody(p.route),
                                    finalUrl |-> p.url, error |-> ""]]

InitFetch ==
    /\ visitedUrls = {}
    /\ urlsToCrawl = <<>>
    /\ failedUrls = <<>>
    /\ isCrawling = FALSE
    /\ isPaused = FALSE
    /\ stats = ZeroStats
    /\ timeTracking = ZeroTimeTracking
    /\ config = [maxPages |-> DefaultMaxPages]
    /\ loops = <<>>
    /\ startError = ""
    /\ configChanged = FALSE
    /\ extractedLinks = {}
    /\ probe \in FetchProbes

ResponseSettles ==
    /\ probe.stage = "fetching"
    /\ probe.awaiting = "response"
    /\ probe' = fetchWithProxyStep(probe)
    /\ UNCHANGED <<visitedUrls, urlsToCrawl, failedUrls, isCrawling, isPaused, stats,
                   timeTracking, config, loops, startError, configChanged,
                   extractedLinks>>

BodySettles ==
    /\ probe.stage = "fetching"
    /\ probe.awaiting = "body"
    /\ probe' = fetchWithProxyStep(probe)
    /\ UNCHANGED <<visitedUrls, urlsToCrawl, failedUrls, isCrawling, isPaused, stats,
                   timeTracking, config, loops, startError, configChanged,
                   extractedLinks>>

NextFetch == ResponseSettles \/ BodySettles

SpecFetch == InitFetch /\ [][NextFetch]_vars

\* the routes that answer with HTTP success and deliver their body
GoodRoutes(p) == {i \in 1..Len(ProxyRoutes) : p.routes[i] = "ok"}

\* C26: the routes are tried in their order 1, 2, 3; when fetchWithProxy
\* returns, its content is the body of the first route that answered with
\* success and delivered its body, its finalUrl is the requested URL, and no
\* later route was tried; routes that threw (while fetching or while the
\* body was read) or answered without success were passed over; when no
\* route is good all three were tried and the error is thrown.
C26_FirstGoodRoute ==
    /\ probe.tried = [j \in 1..probe.route |-> j]
    /\ probe.stage = "returned" =>
          /\ GoodRoutes(probe) # {}
          /\ \A i \in GoodRoutes(probe) : probe.route <= i
          /\ probe.route \in GoodRoutes(probe)
          /\ probe.result.ok
          /\ probe.result.content = RouteBody(probe.route)
          /\ probe.result.finalUrl = probe.url
    /\ probe.stage = "threw" =>
          /\ GoodRoutes(probe) = {}
          /\ probe.tried = <<1, 2, 3>>
          /\ ~probe.result.ok
          /\ probe.result.error = "all proxies unavailable"
    /\ (probe.stage = "fetching" /\ GoodRoutes(probe) # {}) =>
          \A i \in GoodRoutes(probe) : probe.route <= i

\* C26 witness: the first route threw, the second answered without success,
\* and the body of the third is returned
C26_Witness ==
    /\ probe.stage = "returned"
    /\ probe.routes[1] = "throws"
    /\ probe.routes[2] = "notOk"
    /\ probe.tried = <<1, 2, 3>>
    /\ probe.result.content = RouteBody(3)
    /\ probe.result.finalUrl = probe.url

(***************************************************************************)
(* Redirects: the specification SpecRedirect is one run in which the       *)
(* transport may answer with a final URL other than the requested one, as  *)
(* fetchWithPuppeteer does when the crawlResult message it receives names  *)
(* another URL (finalUrl is event.data.url).  The pages hold a relative    *)
(* link, which resolves differently against the two URLs.                  *)
(***************************************************************************)
HrefChild == <<"c">>

PageRelative == <<Link("a", HrefChild), Link("a", HrefA)>>

RedirectTargets == {Https(<<"ex">>, <<"/", "dir", "/">>), Https(<<"other">>, <<"/">>)}

RedirectOutcomes(url) ==
    {[ok |-> FALSE, content |-> <<>>, finalUrl |-> url]}
    \cup {[ok |-> TRUE, content |-> p, finalUrl |-> f] :
             p \in {PageRelative, PageSite}, f \in {url} \cup RedirectTargets}

RedirectStart ==
    /\ Len(loops) = 0
    /\ \E n \in {0, MaxBudget} : StartCrawling(SeedEx, n)

RedirectWake ==
    /\ Len(loops) = 1
    /\ LoopWake(1)

\* the fetch settles; the probe keeps what the transport answered
RedirectSettle ==
    /\ Len(loops) = 1
    /\ loops[1].pc = "fetch"
    /\ \E o \in RedirectOutcomes(loops[1].url) : \E t \in PageTimes :
          /\ FetchSettleEngine(1, o, t)
          /\ probe' = [stage |-> "settled", url |-> loops[1].url, outcome |-> o]

NextRedirect ==
    \/ RedirectStart
    \/ RedirectWake
    \/ RedirectSettle

SpecRedirect == Init /\ [][NextRedirect]_vars

\* the URLs a page's links stand for when resolved against base
LinkTargets(content, base) ==
    {Href(ResolveUrl(content[j].href, base)) :
        j \in {k \in 1..Len(content) : ResolveUrl(content[k].href, base).ok}}

\* C29: when the fetch of url succeeds with finalUrl # url, successfullyCrawled
\* grows by one, failed and failedUrls do not change, url stays in
\* visitedUrls, duplicates is one more than the same page would give without
\* the redirect, and the links are the page's links resolved against
\* finalUrl: the queue and the counters are those of offering them.
C29_RedirectCounted ==
    [][(/\ Len(loops) = 1
        /\ loops[1].pc = "fetch"
        /\ loops'[1].pc = "delay"
        /\ probe'.outcome.ok
        /\ probe'.outcome.finalUrl # loops[1].url)
         => LET o == probe'.outcome
                links == extractUrlsFromHtml(o.content, o.finalUrl)
                plain == processNewUrls(This, links, loops[1].baseUrl)
            IN /\ Range(links) = LinkTargets(o.content, o.finalUrl)
               /\ stats'.successfullyCrawled = stats.successfullyCrawled + 1
               /\ stats'.failed = stats.failed
               /\ failedUrls' = failedUrls
               /\ loops[1].url \in visitedUrls'
               /\ visitedUrls' = visitedUrls
               /\ stats'.duplicates = plain.stats.duplicates + 1
               /\ stats'.totalDiscovered = plain.stats.totalDiscovered
               /\ stats'.external = plain.stats.external
               /\ urlsToCrawl' = plain.urlsToCrawl]_vars

\* C29 witness: the fetch of the seed was answered from /dir/; the seed is
\* visited and not failed, the redirect is counted, and the relative link c
\* is queued as /dir/c
C29_Witness ==
    /\ probe.stage = "settled"
    /\ probe.outcome.ok
    /\ probe.outcome.finalUrl = Https(<<"ex">>, <<"/", "dir", "/">>)
    /\ probe.url = Https(<<"ex">>, <<"/">>)
    /\ probe.url \in visitedUrls
    /\ failedUrls = <<>>
    /\ stats.duplicates = 1
    /\ stats.successfullyCrawled = 1
    /\ Https(<<"ex">>, <<"/", "dir", "/", "c">>) \in Range(urlsToCrawl)
    /\ Https(<<"ex">>, <<"/", "c">>) \notin Range(urlsToCrawl)

(***************************************************************************)
(* Link extraction as a function: the specification SpecExtract draws a    *)
(* document of up to MaxDocLen matches, of any of the five kinds and with  *)
(* absolute, relative, repeated and malformed attribute values, and        *)
(* applies extractUrlsFromHtml to it.                                      *)
(***************************************************************************)
ExtractHrefs == {HrefA, HrefChild, HrefOther, HrefBad}

ExtractLinks == {Link(LinkTags[i], h) : i \in 1..Len(LinkTags), h \in ExtractHrefs}

ExtractProbes ==
    {[stage |-> "document", html |-> d, baseUrl |-> Https(<<"ex">>, <<"/">>),
      urls |-> <<>>] :
        d \in UNION {[1..n -> ExtractLinks] : n \in 0..MaxDocLen}}

InitExtract ==
    /\ visitedUrls = {}
    /\ urlsToCrawl = <<>>
    /\ failedUrls = <<>>
    /\ isCrawling = FALSE
    /\ isPaused = FALSE
    /\ stats = ZeroStats
    /\ timeTracking = ZeroTimeTracking
    /\ config = [maxPages |-> DefaultMaxPages]
    /\ loops = <<>>
    /\ startError = ""
    /\ configChanged = FALSE
    /\ extractedLinks = {}
    /\ probe \in ExtractProbes

ExtractUrls ==
    /\ probe.stage = "document"
    /\ probe' = [probe EXCEPT !.stage = "extracted",
                              !.urls = extractUrlsFromHtml(probe.html, probe.baseUrl)]
    /\ UNCHANGED <<visitedUrls, urlsToCrawl, failedUrls, isCrawling, isPaused, stats,
                   timeTracking, config, loops, startError, configChanged,
                   extractedLinks>>

NextExtract == ExtractUrls

SpecExtract == InitExtract /\ [][NextExtract]_vars

\* the absolute URLs of the well-formed attribute values, in document order
RECURSIVE ResolvedInDocument(_, _)
ResolvedInDocument(html, baseUrl) ==
    IF html = <<>> THEN <<>>
    ELSE (IF ResolveUrl(html[1].href, baseUrl).ok
          THEN <<Href(ResolveUrl(html[1].href, baseUrl))>> ELSE <<>>)
         \o ResolvedInDocument(Tail(html), baseUrl)

\* s without the later occurrences of its elements
RECURSIVE FirstOccurrences(_)
FirstOccurrences(s) ==
    IF s = <<>> THEN <<>>
    ELSE LET front == FirstOccurrences(Take(s, Len(s) - 1))
         IN IF s[Len(s)] \in Range(front) THEN front ELSE Append(front, s[Len(s)])

\* C30: extractUrlsFromHtml returns the absolute URLs of the document's
\* attribute values, each once, in the order of their first occurrence in
\* the document whatever the kind of tag, and leaves out the malformed ones.
\* Violated: the patterns are applied one after the other to the whole
\* document, so the result lists all <a href> first, then <link href>,
\* <img src>, <script src> and <iframe src>.
C30_DocumentOrder ==
    probe.stage = "extracted" =>
        probe.urls = FirstOccurrences(ResolvedInDocument(probe.html, probe.baseUrl))

(***************************************************************************)
(* normalizeUrl as a function: the specification SpecNorm draws a URL and  *)
(* a second URL that differs from it in one respect, and applies           *)
(* normalizeUrl to them, and again to the result.                          *)
(***************************************************************************)
NormSchemes == {"https", "HTTPS"}
NormHosts == {<<"ex">>, <<"www", ".", "ex">>, <<"www", ".", "www", ".", "ex">>}
NormPaths ==
    {<<>>, <<"/">>, <<"/", "a">>, <<"/", "a", "/", "b", "/">>, <<"/", "/", "a">>}
NormQueries ==
    {<<>>, <<"?">>, <<"?", "id", "=", "1">>, <<"?", "utm_source", "=", "1">>,
     <<"?", "b", "=", "2", "&", "UTM_source", "=", "1", "&", "id", "=", "1">>}
NormFragments == {<<>>, <<"#", "top">>}

NormParts ==
    [scheme : NormSchemes, host : NormHosts, path : NormPaths,
     query : NormQueries, fragment : NormFragments]

Build(c) == <<c.scheme, ":", "/", "/">> \o c.host \o c.path \o c.query \o c.fragment

UpperTok(t) ==
    CASE t = "https" -> "HTTPS"
      [] t = "www" -> "WWW"
      [] t = "ex" -> "EX"
      [] OTHER -> t

\* the respects in which two URLs must still canonicalise identically
VariantKinds == {"case", "www", "fragment", "slashes", "trailing", "tracking"}

Vary(c, kind) ==
    CASE kind = "case" ->
           [c EXCEPT !.scheme = UpperTok(@),
                     !.host = [i \in 1..Len(@) |-> UpperTok(@[i])]]
      [] kind = "www" -> [c EXCEPT !.host = <<"www", ".">> \o @]
      [] kind = "fragment" ->
           [c EXCEPT !.fragment = IF @ = <<>> THEN <<"#", "frag">> ELSE <<>>]
      [] kind = "slashes" -> [c EXCEPT !.path = <<"/">> \o @]
      [] kind = "trailing" -> [c EXCEPT !.path = @ \o <<"/">>]
      [] kind = "tracking" ->
           [c EXCEPT !.query = IF Len(@) <= 1 THEN <<"?", "fbclid", "=", "9">>
                               ELSE @ \o <<"&", "fbclid", "=", "9">>]
      [] OTHER -> c

NormProbes ==
    {[stage |-> "input", kind |-> k, url |-> Build(c), variant |-> Build(Vary(c, k)),
      once |-> <<>>, onceVariant |-> <<>>, twice |-> <<>>] :
        c \in NormParts, k \in VariantKinds}
    \cup {[stage |-> "input", kind |-> "none", url |-> u, variant |-> u,
           once |-> <<>>, onceVariant |-> <<>>, twice |-> <<>>] :
        u \in SeedInputs \cup Hrefs}

InitNorm ==
    /\ visitedUrls = {}
    /\ urlsToCrawl = <<>>
    /\ failedUrls = <<>>
    /\ isCrawling = FALSE
    /\ isPaused = FALSE
    /\ stats = ZeroStats
    /\ timeTracking = ZeroTimeTracking
    /\ config = [maxPages |-> DefaultMaxPages]
    /\ loops = <<>>
    /\ startError = ""
    /\ configChanged = FALSE
    /\ extractedLinks = {}
    /\ probe \in NormProbes

NormalizeOnce ==
    /\ probe.stage = "input"
    /\ probe' = [probe EXCEPT !.stage = "once",
                              !.once = normalizeUrl(probe.url),
                              !.onceVariant = normalizeUrl(probe.variant)]
    /\ UNCHANGED <<visitedUrls, urlsToCrawl, failedUrls, isCrawling, isPaused, stats,
                   timeTracking, config, loops, startError, configChanged,
                   extractedLinks>>

NormalizeTwice ==
    /\ probe.stage = "once"
    /\ probe' = [probe EXCEPT !.stage = "twice", !.twice = normalizeUrl(probe.once)]
    /\ UNCHANGED <<visitedUrls, urlsToCrawl, failedUrls, isCrawling, isPaused, stats,
                   timeTracking, config, loops, startError, configChanged,
                   extractedLinks>>

NextNorm == NormalizeOnce \/ NormalizeTwice

SpecNorm == InitNorm /\ [][NextNorm]_vars

(***************************************************************************)
(* C8: canonicalisation is idempotent: for every URL u that normalizeUrl   *)
(* accepts, normalizeUrl(normalizeUrl(u)) = normalizeUrl(u), also for      *)
(* hosts with repeated leading "www." labels.                              *)
(* Violated: /^www\./ strips one label per call.                           *)
(***************************************************************************)
C8_Idempotent ==
    (probe.stage = "twice" /\ isValidUrl(probe.url)) => probe.twice = probe.once

(***************************************************************************)
(* C9: two URLs that differ only in scheme/host letter case, one leading   *)
(* "www." label, the fragment, repeated slashes, a trailing slash or a     *)
(* tracking parameter canonicalise to the same string, and the remaining   *)
(* parameters keep their original relative order.                          *)
(* Violated: www.www.ex and www.ex differ in one leading label and         *)
(* canonicalise to www.ex and ex; and "?" with no parameter is kept while  *)
(* "?fbclid=9" loses its "?".                                              *)
(***************************************************************************)
C9_VariantsAgree ==
    (probe.stage = "once" /\ probe.kind \in VariantKinds)
        => /\ probe.onceVariant = probe.once
           /\ ParseParams(ParseURL(probe.once).query)
                  = SelectSeq(ParseParams(ParseURL(probe.url).query),
                              LAMBDA q : LowerTok(q.key[1]) \notin TrackingTokens)

====
